---- MODULE Spec2Model ----
(***************************************************************************)
(* A model of the webhook receiver of src/app: the HMAC-authenticated      *)
(* POST /webhook handler, the SQLite message store behind it and the       *)
(* GET /messages and GET /stats read endpoints.                            *)
(*                                                                         *)
(* Strings are sequences of Unicode code points (Python str, SQLite TEXT   *)
(* compared with the BINARY collation: code point order is UTF-8 byte      *)
(* order).  An optional or JSON value is a record [t, s] whose tag t says  *)
(* what it is and whose s is the string when there is one.                 *)
(***************************************************************************)
EXTENDS Integers, Sequences, FiniteSets, TLC

VARIABLES store, clock, wlock, proc

vars == <<store, clock, wlock, proc>>

(***************************************************************************)
(* Bounds of the model.                                                    *)
(***************************************************************************)
\* number of request workers that may be inside a handler at the same time
NumProcs == 2
\* the server clock takes the values 0..MaxClock
MaxClock == 1

Procs == 1..NumProcs

(***************************************************************************)
(* Characters and program constants.                                       *)
(***************************************************************************)
PLUS == 43
ZED == 90
PERCENT == 37
UNDERSCORE == 95
TEXT_MAX == 4096
LIMIT_MIN == 1
LIMIT_MAX == 100
\* LIMIT 10 of the messages_per_sender statement
TOP_N == 10
OFFSET_MIN == 0
\* the surrogate code points
SURROGATE_MIN == 55296
SURROGATE_MAX == 57343
\* SQLite's limit on the length in bytes of a LIKE pattern
LIKE_PATTERN_MAX == 50000
\* U+FFFD REPLACEMENT CHARACTER and the noncharacters U+FFFE, U+FFFF
REPLACEMENT == 65533
NONCHAR_MIN == 65534
NONCHAR_MAX == 65535

WEBHOOK_SECRET == "s3cr3t"

AsciiDigits == 48..57
\* the 778 code points outside ASCII for which str.isdigit() is true
\* (Unicode 14, the table of CPython 3.11): the decimal digits of every
\* script, and the superscript, subscript, circled and other characters
\* whose Numeric_Type is Digit
UnicodeDigits ==
  {185, 8304, 9450, 9471} \cup (178..179) \cup (1632..1641) \cup
  (1776..1785) \cup (1984..1993) \cup (2406..2415) \cup (2534..2543) \cup
  (2662..2671) \cup (2790..2799) \cup (2918..2927) \cup (3046..3055) \cup
  (3174..3183) \cup (3302..3311) \cup (3430..3439) \cup (3558..3567) \cup
  (3664..3673) \cup (3792..3801) \cup (3872..3881) \cup (4160..4169) \cup
  (4240..4249) \cup (4969..4977) \cup (6112..6121) \cup (6160..6169) \cup
  (6470..6479) \cup (6608..6618) \cup (6784..6793) \cup (6800..6809) \cup
  (6992..7001) \cup (7088..7097) \cup (7232..7241) \cup (7248..7257) \cup
  (8308..8313) \cup (8320..8329) \cup (9312..9320) \cup (9332..9340) \cup
  (9352..9360) \cup (9461..9469) \cup (10102..10110) \cup (10112..10120) \cup
  (10122..10130) \cup (42528..42537) \cup (43216..43225) \cup
  (43264..43273) \cup (43472..43481) \cup (43504..43513) \cup
  (43600..43609) \cup (44016..44025) \cup (65296..65305) \cup
  (66720..66729) \cup (68160..68163) \cup (68912..68921) \cup
  (69216..69224) \cup (69714..69722) \cup (69734..69743) \cup
  (69872..69881) \cup (69942..69951) \cup (70096..70105) \cup
  (70384..70393) \cup (70736..70745) \cup (70864..70873) \cup
  (71248..71257) \cup (71360..71369) \cup (71472..71481) \cup
  (71904..71913) \cup (72016..72025) \cup (72784..72793) \cup
  (73040..73049) \cup (73120..73129) \cup (92768..92777) \cup
  (92864..92873) \cup (93008..93017) \cup (120782..120831) \cup
  (123200..123209) \cup (123632..123641) \cup (125264..125273) \cup
  (127232..127242) \cup (130032..130041)

(***************************************************************************)
(* Values.                                                                 *)
(***************************************************************************)
Str(s) == [t |-> "str", s |-> s]
None == [t |-> "none", s |-> <<>>]
JNull == [t |-> "null", s |-> <<>>]
JAbsent == [t |-> "absent", s |-> <<>>]
JArray == [t |-> "array", s |-> <<>>]

\* the string of n copies of the letter a
Pad(n) == [i \in 1..n |-> 97]

Min(a, b) == IF a < b THEN a ELSE b
Max(a, b) == IF a < b THEN b ELSE a

\* s < t in code point order, a proper prefix being smaller
LexLess(s, t) ==
  \E i \in 1..Len(t) :
    /\ i - 1 <= Len(s)
    /\ \A j \in 1..(i - 1) : s[j] = t[j]
    /\ (Len(s) = i - 1 \/ s[i] < t[i])

(***************************************************************************)
(* Request bodies: a JSON object with the five fields of the message, each *)
(* absent, null, a string or another JSON value (an array); or bytes that  *)
(* are no JSON object at all.                                              *)
(***************************************************************************)
Obj(id, from, to, ts, text) ==
  [kind |-> "object", message_id |-> id, from |-> from, to |-> to, ts |-> ts,
   text |-> text]
NotJson ==
  [kind |-> "garbage", message_id |-> JAbsent, from |-> JAbsent, to |-> JAbsent,
   ts |-> JAbsent, text |-> JAbsent]
NoBody == NotJson

(***************************************************************************)
(* str methods used by the validators.                                     *)
(***************************************************************************)
startswith(v, c) == Len(v) >= 1 /\ v[1] = c
endswith(v, c) == Len(v) >= 1 /\ v[Len(v)] = c
isdigit(v) == Len(v) >= 1 /\ \A i \in 1..Len(v) : v[i] \in AsciiDigits \cup UnicodeDigits
isascii(v) == \A i \in 1..Len(v) : v[i] < 128

(***************************************************************************)
(* WebhookMessage: the field validators and parse_raw.                     *)
(***************************************************************************)
id_not_empty(v) == v # <<>>

validate_e164(v) == ~(~startswith(v, PLUS) \/ ~isdigit(Tail(v)))

validate_ts(v) == endswith(v, ZED)

validate_text_off_by_one(v) == ~(Len(v) > TEXT_MAX + 1)
validate_text(v) == ~(Len(v) > TEXT_MAX)

\* a required str field: present, a string, and accepted by its validator
RequiredOk(j, valid) == j.t = "str" /\ valid
\* text: Optional[str] = None: absent and null give None, the validator
\* runs on strings only
OptionalOk(j, valid) == j.t \in {"absent", "null"} \/ (j.t = "str" /\ valid)

\* the names of the fields pydantic reports in its ValidationError
FieldErrors(body) ==
  {f \in {"message_id", "from", "to", "ts", "text"} :
     \/ f = "message_id" /\ ~RequiredOk(body.message_id, id_not_empty(body.message_id.s))
     \/ f = "from" /\ ~RequiredOk(body.from, validate_e164(body.from.s))
     \/ f = "to" /\ ~RequiredOk(body.to, validate_e164(body.to.s))
     \/ f = "ts" /\ ~RequiredOk(body.ts, validate_ts(body.ts.s))
     \/ f = "text" /\ ~OptionalOk(body.text, validate_text(body.text.s))}

\* WebhookMessage.parse_raw(raw_body): a body that is not a JSON object is
\* an error ("__root__"), otherwise the fields decide
ParseErrors(body) == IF body.kind # "object" THEN {"__root__"} ELSE FieldErrors(body)

\* the model instance parse_raw returns (the alias "from" fills from_)
WebhookMessage(body) ==
  [message_id |-> body.message_id.s,
   from_ |-> body.from.s,
   to |-> body.to.s,
   ts |-> body.ts.s,
   text |-> IF body.text.t = "str" THEN Str(body.text.s) ELSE None]

\* payload.dict(by_alias=True)
DictByAlias(m) ==
  [message_id |-> m.message_id, from |-> m.from_, to |-> m.to, ts |-> m.ts,
   text |-> m.text]

(***************************************************************************)
(* The signature: hmac.new(secret, raw_body, sha256).hexdigest() is an     *)
(* ASCII string determined by the key and the message; distinct (key,      *)
(* message) pairs give distinct digests, and no other string equals one.   *)
(***************************************************************************)
hexdigest(key, msg) == [t |-> "hex", s |-> <<>>, key |-> key, msg |-> msg]

\* a header value that is a plain string
Header(s) == [t |-> "str", s |-> s, key |-> "", msg |-> NoBody]
NoHeader == [t |-> "none", s |-> <<>>, key |-> "", msg |-> NoBody]

\* `not signature`: the header is missing or empty
SignatureMissing(sig) == sig.t = "none" \/ (sig.t = "str" /\ sig.s = <<>>)

\* hmac.compare_digest(a, b) on two str: TypeError when either holds a
\* non-ASCII character, otherwise whether they are equal
compare_digest(a, b) ==
  IF ~isascii(a.s) \/ ~isascii(b.s) THEN "TypeError"
  ELSE IF a = b THEN "True" ELSE "False"

\* the outcome of lines 64-76 of the handler: "ok", or the failure raised
AuthSkipped(req) == "ok"
Auth(req) ==
  IF SignatureMissing(req.signature) THEN "401"
  ELSE LET c == compare_digest(req.signature, hexdigest(WEBHOOK_SECRET, req.body))
       IN  IF c = "TypeError" THEN "500" ELSE IF c = "False" THEN "401" ELSE "ok"

(***************************************************************************)
(* Responses.                                                              *)
(***************************************************************************)
HTTPException(status, detail, errors) ==
  [status |-> status, detail |-> detail, errors |-> errors, result |-> ""]
\* an exception no handler catches
ServerError == [status |-> 500, detail |-> "Internal Server Error", errors |-> {}, result |-> ""]
WebhookOk(inserted) ==
  [status |-> 200, detail |-> "", errors |-> {},
   result |-> IF inserted THEN "created" ELSE "duplicate"]
NoResp == [status |-> 0, detail |-> "", errors |-> {}, result |-> ""]

(***************************************************************************)
(* The store: the rows of table messages in rowid (insertion) order.       *)
(***************************************************************************)
Ids(rows) == {rows[i].message_id : i \in DOMAIN rows}

\* message_id TEXT PRIMARY KEY: the INSERT raises sqlite3.IntegrityError
PrimaryKeyConflict(rows, id) == id \in Ids(rows)

RECURSIVE Digits(_)
Digits(n) == IF n < 10 THEN <<48 + n>> ELSE Digits(n \div 10) \o <<48 + (n % 10)>>
\* datetime.utcnow().isoformat() + "Z", the time being the clock's reading
UtcNowIsoZ(now) == Append(Digits(now), ZED)

\* the tuple of values the INSERT binds
InsertValues(message, now) ==
  [message_id |-> message.message_id,
   from_msisdn |-> message.from,
   to_msisdn |-> message.to,
   ts |-> message.ts,
   text |-> message.text,
   created_at |-> UtcNowIsoZ(now)]

\* a str is bound to a statement as UTF-8, which has no encoding for the
\* surrogate code points U+D800..U+DFFF (json.loads takes "\ud800" as one)
Encodable(v) == \A i \in 1..Len(v) : v[i] \notin SURROGATE_MIN..SURROGATE_MAX

\* binding the six values of the INSERT raises UnicodeEncodeError
BindError(values) ==
  \/ ~Encodable(values.message_id)
  \/ ~Encodable(values.from_msisdn)
  \/ ~Encodable(values.to_msisdn)
  \/ ~Encodable(values.ts)
  \/ values.text.t = "str" /\ ~Encodable(values.text.s)

\* cursor.execute of the INSERT on a table holding `rows`: the error it
\* raises, if any, and the table as the connection's transaction then sees
\* it; the values are bound before the statement runs
execute(rows, values) ==
  IF BindError(values)
  THEN [error |-> "UnicodeEncodeError", rows |-> rows]
  ELSE IF PrimaryKeyConflict(rows, values.message_id)
       THEN [error |-> "IntegrityError", rows |-> rows]
       ELSE [error |-> "", rows |-> Append(rows, values)]

\* another connection's open write transaction makes the statement wait
WriteLockFree == wlock = 0
NoMessage == [message_id |-> <<>>, from |-> <<>>, to |-> <<>>, ts |-> <<>>, text |-> None]

(***************************************************************************)
(* Request workers.  proc[p].pc is where worker p stands in its handler:   *)
(* "idle", "insert" (before cursor.execute of the INSERT), "commit"        *)
(* (before conn.commit), "count" and "data" (before the two SELECTs of     *)
(* get_messages), the name of the local variable that the next SELECT of   *)
(* stats assigns, "done" (the response has been returned).  now is the     *)
(* reading of the clock taken for created_at, pending is                   *)
(* the table as the worker's open transaction sees it.  Three fields only  *)
(* record history: pre is the store as it was when the request arrived,    *)
(* repeat says that the request repeats the one just answered with         *)
(* "created", rowid is the rowid of the row the worker inserted (0: none). *)
(* raised is the exception insert_message's statements raised ("": none). *)
(***************************************************************************)
NoReq == [kind |-> "none"]
\* the local variables of stats before their statements have run
NoStats ==
  [total_messages |-> 0, senders_count |-> 0, messages_per_sender |-> <<>>,
   first_message_ts |-> None, last_message_ts |-> None]
Idle ==
  [pc |-> "idle", req |-> NoReq, pre |-> <<>>, message |-> NoMessage, pending |-> <<>>,
   now |-> 0, total |-> 0, stats |-> NoStats, resp |-> NoResp, repeat |-> FALSE,
   rowid |-> 0, raised |-> ""]

Done(w, resp) == [w EXCEPT !.pc = "done", !.resp = resp]

Repeats(req) ==
  \E q \in Procs : /\ proc[q].pc = "done"
                    /\ proc[q].req = req
                    /\ proc[q].resp.status = 200
                    /\ proc[q].resp.result = "created"

(***************************************************************************)
(* POST /webhook.                                                          *)
(***************************************************************************)
\* lines 64-83: the signature is checked, then the body is parsed; with a
\* valid message the handler calls insert_message, which opens its
\* connection and evaluates the arguments of cursor.execute, the clock
\* reading among them, before the statement runs
webhook(p, req) ==
  /\ proc[p].pc \in {"idle", "done"}
  /\ LET w == [Idle EXCEPT !.req = req, !.pre = store, !.repeat = Repeats(req)]
         a == Auth(req)
         errs == ParseErrors(req.body)
     IN  proc' = [proc EXCEPT ![p] =
           IF a = "401" THEN Done(w, HTTPException(401, "invalid signature", {}))
           ELSE IF a = "500" THEN Done(w, ServerError)
           ELSE IF errs # {} THEN Done(w, HTTPException(422, "validation error", errs))
           ELSE [w EXCEPT !.pc = "insert",
                          !.message = DictByAlias(WebhookMessage(req.body)),
                          !.now = clock]]
  /\ UNCHANGED <<store, clock, wlock>>

\* `except sqlite3.IntegrityError`: the one exception insert_message catches
CaughtAny(error) == TRUE
Caught(error) == error = "IntegrityError"

\* insert_message after one of its statements raised `error`: a caught error
\* is `return False` and the handler answers "duplicate", any other one
\* leaves insert_message and the handler, and the framework answers 500
Raised(w, error) ==
  [Done(w, IF Caught(error) THEN WebhookOk(FALSE) ELSE ServerError) EXCEPT
     !.raised = error, !.pending = <<>>]

\* insert_message, cursor.execute: values that cannot be bound raise at
\* once; otherwise the statement waits while another connection holds the
\* write lock; a primary-key collision is caught (return False, the
\* connection is closed) and the handler answers "duplicate"; otherwise the
\* row is written in this connection's transaction, which holds the write
\* lock until it commits
insert_execute(p) ==
  /\ proc[p].pc = "insert"
  /\ LET r == execute(store, InsertValues(proc[p].message, proc[p].now))
     IN  /\ r.error = "UnicodeEncodeError" \/ WriteLockFree
         /\ IF r.error # ""
            THEN /\ proc' = [proc EXCEPT ![p] = Raised(@, r.error)]
                 /\ UNCHANGED wlock
            ELSE /\ proc' = [proc EXCEPT ![p].pc = "commit", ![p].pending = r.rows]
                 /\ wlock' = p
  /\ UNCHANGED <<store, clock>>

\* insert_message, cursor.execute while another connection holds the write
\* lock for longer than the connection waits (sqlite3.connect's default
\* timeout): the values were bound, the statement gives up with
\* sqlite3.OperationalError "database is locked", which is not caught, so
\* the handler answers 500; the holder keeps the lock
insert_busy(p) ==
  /\ proc[p].pc = "insert"
  /\ ~BindError(InsertValues(proc[p].message, proc[p].now))
  /\ ~WriteLockFree
  /\ proc' = [proc EXCEPT ![p] = Raised(@, "OperationalError")]
  /\ UNCHANGED <<store, clock, wlock>>

\* insert_message, conn.commit and return True; the handler answers "created"
insert_commit(p) ==
  /\ proc[p].pc = "commit"
  /\ store' = proc[p].pending
  /\ wlock' = 0
  /\ proc' = [proc EXCEPT ![p] = [Done(@, WebhookOk(TRUE)) EXCEPT
                                    !.pending = <<>>, !.rowid = Len(proc[p].pending)]]
  /\ UNCHANGED clock

\* the errors of the database file or its lock that a write can raise:
\* sqlite3.OperationalError ("database is locked" when the wait for the
\* lock times out, "disk I/O error", "attempt to write a readonly database")
WriteFaults == {"OperationalError"}

\* cursor.execute of the INSERT raises e: nothing was written
execute_fails(p, e) ==
  /\ proc[p].pc = "insert"
  /\ proc' = [proc EXCEPT ![p] = Raised(@, e)]
  /\ UNCHANGED <<store, clock, wlock>>

\* conn.commit raises e: `finally: conn.close()` rolls the open
\* transaction back and gives the write lock up
commit_fails(p, e) ==
  /\ proc[p].pc = "commit"
  /\ proc' = [proc EXCEPT ![p] = Raised(@, e)]
  /\ wlock' = 0
  /\ UNCHANGED <<store, clock>>

\* the response has reached the client and the exchange is over
Return(p) ==
  /\ proc[p].pc = "done"
  /\ proc' = [proc EXCEPT ![p] = Idle]
  /\ UNCHANGED <<store, clock, wlock>>

\* time passes
Tick ==
  /\ clock < MaxClock
  /\ clock' = clock + 1
  /\ UNCHANGED <<store, wlock, proc>>

\* init_db on an empty database file
Init ==
  /\ store = <<>>
  /\ clock = 0
  /\ wlock = 0
  /\ proc = [p \in Procs |-> Idle]

(***************************************************************************)
(* GET /messages.                                                          *)
(***************************************************************************)
\* `if from_:` and the like: the parameter was given and is not empty
Truthy(o) == o.t = "str" /\ o.s # <<>>

\* the conditions list with its parameters, in the order the handler
\* appends them
Conditions(req) ==
  (IF Truthy(req.from) THEN <<[sql |-> "from_msisdn = ?", param |-> req.from.s]>> ELSE <<>>)
  \o (IF Truthy(req.since) THEN <<[sql |-> "ts >= ?", param |-> req.since.s]>> ELSE <<>>)
  \o (IF Truthy(req.q)
      THEN <<[sql |-> "text LIKE ?", param |-> <<PERCENT>> \o req.q.s \o <<PERCENT>>]>>
      ELSE <<>>)

\* SQLite's LIKE: % matches any run of characters, _ any one character,
\* and ASCII letters match without regard to case
Fold(c) == IF c \in 65..90 THEN c + 32 ELSE c

\* one character as LIKE reads it from the UTF-8 text: the noncharacters
\* U+FFFE and U+FFFF, and the surrogates, are read as U+FFFD
Utf8Read(c) ==
  IF c \in {NONCHAR_MIN, NONCHAR_MAX} \/ c \in SURROGATE_MIN..SURROGATE_MAX
  THEN REPLACEMENT ELSE c

RECURSIVE patternCompare(_, _)
patternCompare(pat, s) ==
  IF pat = <<>> THEN s = <<>>
  ELSE IF Head(pat) = PERCENT
       THEN patternCompare(Tail(pat), s) \/ (s # <<>> /\ patternCompare(pat, Tail(s)))
       ELSE /\ s # <<>>
            /\ \/ Head(pat) = UNDERSCORE
               \/ Fold(Utf8Read(Head(pat))) = Fold(Utf8Read(Head(s)))
            /\ patternCompare(Tail(pat), Tail(s))

\* the string up to its first U+0000: SQLite's LIKE reads the pattern and
\* the text as NUL-terminated strings
UpToNul(v) ==
  LET nuls == {i \in DOMAIN v : v[i] = 0}
  IN  IF nuls = {} THEN v
      ELSE SubSeq(v, 1, (CHOOSE i \in nuls : \A j \in nuls : i <= j) - 1)

Like(pat, s) == patternCompare(UpToNul(pat), UpToNul(s))

\* the length in bytes of the UTF-8 encoding of a string
Utf8Len(v) ==
  Len(v) + Cardinality({i \in DOMAIN v : v[i] >= 128})
         + Cardinality({i \in DOMAIN v : v[i] >= 2048})
         + Cardinality({i \in DOMAIN v : v[i] >= 65536})

\* one condition on one row; a NULL text matches no LIKE
Holds(row, cond) ==
  CASE cond.sql = "from_msisdn = ?" -> row.from_msisdn = cond.param
    [] cond.sql = "ts >= ?" -> ~LexLess(row.ts, cond.param)
    [] cond.sql = "text LIKE ?" -> row.text.t = "str" /\ Like(cond.param, row.text.s)

\* WHERE c1 AND c2 ...; no WHERE when there is no condition
Where(row, conds) == \A i \in DOMAIN conds : Holds(row, conds[i])

\* evaluating the WHERE on a row raises OperationalError "LIKE or GLOB
\* pattern too complex": the conditions are tested in order up to the first
\* that fails, and LIKE refuses a pattern of more than 50000 bytes whatever
\* the text, NULL included
TooComplex(row, conds) ==
  \E i \in DOMAIN conds :
    /\ conds[i].sql = "text LIKE ?"
    /\ Utf8Len(conds[i].param) > LIKE_PATTERN_MAX
    /\ \A j \in 1..(i - 1) : Holds(row, conds[j])

\* the error one of the two SELECTs raises on a table holding `rows`, if
\* any; both scan every row
SelectError(rows, conds) ==
  IF \E i \in DOMAIN rows : TooComplex(rows[i], conds) THEN "OperationalError" ELSE ""

\* SELECT COUNT(*) FROM messages {where}
CountAll(rows, conds) == Len(rows)
CountRows(rows, conds) == Len(SelectSeq(rows, LAMBDA r : Where(r, conds)))

\* ORDER BY ts ASC, message_id ASC
RowBeforeTsOnly(a, b) == LexLess(a.ts, b.ts)
RowBefore(a, b) ==
  LexLess(a.ts, b.ts) \/ (a.ts = b.ts /\ LexLess(a.message_id, b.message_id))

InsertRow(sorted, r) ==
  LET k == Cardinality({i \in DOMAIN sorted : ~RowBefore(r, sorted[i])})
  IN  SubSeq(sorted, 1, k) \o <<r>> \o SubSeq(sorted, k + 1, Len(sorted))

RECURSIVE OrderBy(_)
OrderBy(rows) ==
  IF rows = <<>> THEN <<>>
  ELSE InsertRow(OrderBy(SubSeq(rows, 1, Len(rows) - 1)), rows[Len(rows)])

\* LIMIT ? OFFSET ?
LimitOffsetPlusOne(rows, limit, offset) ==
  SubSeq(rows, offset + 1, Min(offset + limit + 1, Len(rows)))
LimitOffset(rows, limit, offset) ==
  SubSeq(rows, offset + 1, Min(offset + limit, Len(rows)))

\* dict(row) of the selected columns
DataEntry(row) ==
  [message_id |-> row.message_id, from |-> row.from_msisdn, to |-> row.to_msisdn,
   ts |-> row.ts, text |-> row.text]

\* the data statement as a whole
SelectPage(rows, conds, limit, offset) ==
  LET page == LimitOffset(OrderBy(SelectSeq(rows, LAMBDA r : Where(r, conds))),
                          limit, offset)
  IN  [i \in 1..Len(page) |-> DataEntry(page[i])]

\* Query(50, ge=1, le=100) and Query(0, ge=0): the parameters FastAPI
\* rejects.  A Python int has no bound; the offset of a request is carried
\* as two digits in base 2^63, offset_hi * 2^63 + offset with
\* 0 <= offset < 2^63 unless offset_hi = 0
QueryErrors(req) ==
  {f \in {"limit", "offset"} :
     \/ f = "limit" /\ (req.limit < LIMIT_MIN \/ req.limit > LIMIT_MAX)
     \/ f = "offset" /\ \/ req.offset_hi < 0
                        \/ req.offset_hi = 0 /\ req.offset < OFFSET_MIN}

\* binding [limit, offset] to `LIMIT ? OFFSET ?` raises OverflowError
\* ("Python int too large to convert to SQLite INTEGER"): the value does
\* not fit 64 bits, signed
PageBindError(req) == req.offset_hi # 0

MessagesOk(data, total, limit, offset) ==
  [status |-> 200, data |-> data, total |-> total, limit |-> limit, offset |-> offset]

\* the request arrives and its query parameters are validated
get_messages(p, req) ==
  /\ proc[p].pc \in {"idle", "done"}
  /\ LET w == [Idle EXCEPT !.req = req, !.pre = store]
         errs == QueryErrors(req)
     IN  proc' = [proc EXCEPT ![p] =
           IF errs # {} THEN Done(w, HTTPException(422, "validation error", errs))
           ELSE [w EXCEPT !.pc = "count"]]
  /\ UNCHANGED <<store, clock, wlock>>

\* lines 118-119: the count statement reads the committed rows; an error
\* it raises is caught by nobody
messages_count(p) ==
  /\ proc[p].pc = "count"
  /\ proc' = [proc EXCEPT ![p] =
       IF SelectError(store, Conditions(proc[p].req)) # ""
       THEN Done(@, ServerError)
       ELSE [@ EXCEPT !.pc = "data",
                      !.total = CountRows(store, Conditions(proc[p].req))]]
  /\ UNCHANGED <<store, clock, wlock>>

\* lines 122-141: the data statement reads the committed rows, and the
\* handler returns
messages_data(p) ==
  /\ proc[p].pc = "data"
  /\ LET req == proc[p].req
     IN  proc' = [proc EXCEPT ![p] =
           IF PageBindError(req) \/ SelectError(store, Conditions(req)) # ""
           THEN Done(@, ServerError)
           ELSE Done(@, MessagesOk(SelectPage(store, Conditions(req), req.limit,
                                              req.offset),
                                   proc[p].total, req.limit, req.offset))]
  /\ UNCHANGED <<store, clock, wlock>>

(***************************************************************************)
(* GET /stats.                                                             *)
(***************************************************************************)
\* SELECT COUNT(*) FROM messages
TotalMessages(rows) == Len(rows)

Senders(rows) == {rows[i].from_msisdn : i \in DOMAIN rows}
\* SELECT COUNT(DISTINCT from_msisdn) FROM messages
SendersCount(rows) == Cardinality(Senders(rows))

\* COUNT(*) of the group of one sender
CountOf(rows, sender) == Cardinality({i \in DOMAIN rows : rows[i].from_msisdn = sender})

\* the row position at which a sender first appears
FirstSeen(rows, sender) ==
  CHOOSE i \in DOMAIN rows :
    /\ rows[i].from_msisdn = sender
    /\ \A j \in 1..(i - 1) : rows[j].from_msisdn # sender

\* GROUP BY from_msisdn: SQLite collects the groups in a temporary b-tree
\* keyed by from_msisdn, so they come out in ascending from_msisdn order
GroupsAsStored(rows) ==
  LET S == Senders(rows)
  IN  [k \in 1..Cardinality(S) |->
         LET s == CHOOSE s \in S :
                    Cardinality({u \in S : FirstSeen(rows, u) < FirstSeen(rows, s)}) = k - 1
         IN  [from |-> s, count |-> CountOf(rows, s)]]
GroupBy(rows) ==
  LET S == Senders(rows)
  IN  [k \in 1..Cardinality(S) |->
         LET s == CHOOSE s \in S : Cardinality({u \in S : LexLess(u, s)}) = k - 1
         IN  [from |-> s, count |-> CountOf(rows, s)]]

\* ORDER BY count DESC, count being the only sort key: SQLite's sorter
\* returns groups of equal count in the reverse of the order they entered it
OrderByCountAsc(groups) ==
  [k \in 1..Len(groups) |->
     groups[CHOOSE i \in DOMAIN groups :
              Cardinality({j \in DOMAIN groups :
                             \/ groups[j].count < groups[i].count
                             \/ groups[j].count = groups[i].count /\ j > i}) = k - 1]]
OrderByCount(groups) ==
  [k \in 1..Len(groups) |->
     groups[CHOOSE i \in DOMAIN groups :
              Cardinality({j \in DOMAIN groups :
                             \/ groups[j].count > groups[i].count
                             \/ groups[j].count = groups[i].count /\ j > i}) = k - 1]]

\* the third statement as a whole, LIMIT 10, each row through dict(row)
MessagesPerSender(rows) == LimitOffset(OrderByCount(GroupBy(rows)), TOP_N, 0)

TsValues(rows) == {rows[i].ts : i \in DOMAIN rows}
\* SELECT ts FROM messages ORDER BY ts ASC LIMIT 1, fetchone(), and
\* `first_message_ts["ts"] if first_message_ts else None`
FirstTsAsStored(rows) == IF rows = <<>> THEN None ELSE Str(rows[1].ts)
FirstTs(rows) ==
  IF rows = <<>> THEN None
  ELSE Str(CHOOSE t \in TsValues(rows) : \A u \in TsValues(rows) : ~LexLess(u, t))
\* SELECT ts FROM messages ORDER BY ts DESC LIMIT 1
LastTs(rows) ==
  IF rows = <<>> THEN None
  ELSE Str(CHOOSE t \in TsValues(rows) : \A u \in TsValues(rows) : ~LexLess(t, u))

StatsOk(s) ==
  [status |-> 200,
   total_messages |-> s.total_messages,
   senders_count |-> s.senders_count,
   messages_per_sender |-> s.messages_per_sender,
   first_message_ts |-> s.first_message_ts,
   last_message_ts |-> s.last_message_ts]

\* the request arrives; the handler takes no parameter
stats(p, req) ==
  /\ proc[p].pc \in {"idle", "done"}
  /\ proc' = [proc EXCEPT ![p] = [Idle EXCEPT !.req = req, !.pre = store,
                                              !.pc = "total_messages"]]
  /\ UNCHANGED <<store, clock, wlock>>

\* line 149; each of the five statements reads the rows committed by then
stats_total_messages(p) ==
  /\ proc[p].pc = "total_messages"
  /\ proc' = [proc EXCEPT ![p].pc = "senders_count",
                          ![p].stats.total_messages = TotalMessages(store)]
  /\ UNCHANGED <<store, clock, wlock>>

\* line 150
stats_senders_count(p) ==
  /\ proc[p].pc = "senders_count"
  /\ proc' = [proc EXCEPT ![p].pc = "messages_per_sender",
                          ![p].stats.senders_count = SendersCount(store)]
  /\ UNCHANGED <<store, clock, wlock>>

\* lines 152-158
stats_messages_per_sender(p) ==
  /\ proc[p].pc = "messages_per_sender"
  /\ proc' = [proc EXCEPT ![p].pc = "first_message_ts",
                          ![p].stats.messages_per_sender = MessagesPerSender(store)]
  /\ UNCHANGED <<store, clock, wlock>>

\* line 161
stats_first_message_ts(p) ==
  /\ proc[p].pc = "first_message_ts"
  /\ proc' = [proc EXCEPT ![p].pc = "last_message_ts",
                          ![p].stats.first_message_ts = FirstTs(store)]
  /\ UNCHANGED <<store, clock, wlock>>

\* lines 162-172: the last statement, and the handler returns
stats_last_message_ts(p) ==
  /\ proc[p].pc = "last_message_ts"
  /\ proc' = [proc EXCEPT ![p] =
       Done(@, StatsOk([proc[p].stats EXCEPT !.last_message_ts = LastTs(store)]))]
  /\ UNCHANGED <<store, clock, wlock>>

(***************************************************************************)
(* The requests the model draws from.                                      *)
(***************************************************************************)
idA == <<97>>
idB == <<98>>
idC == <<99>>
plus1 == <<PLUS, 49>>
plus2 == <<PLUS, 50>>
plus9 == <<PLUS, 57>>
ts1Z == <<49, ZED>>
ts2Z == <<50, ZED>>
\* "10Z", which sorts before "1Z" as text
ts10Z == <<49, 48, ZED>>
hi == <<104, 105>>

\* valid payloads
PayA1 == Obj(Str(idA), Str(plus1), Str(plus9), Str(ts1Z), Str(hi))
PayA2 == Obj(Str(idA), Str(plus2), Str(plus9), Str(ts2Z), JNull)
PayB1 == Obj(Str(idB), Str(plus1), Str(plus9), Str(ts1Z), JAbsent)
PayB2 == Obj(Str(idB), Str(plus1), Str(plus9), Str(ts2Z), Str(Pad(TEXT_MAX)))
PayC1 == Obj(Str(idC), Str(plus2), Str(plus9), Str(ts1Z), Str(<<>>))
\* "H_%"
PayC2 == Obj(Str(idC), Str(plus2), Str(plus9), Str(ts10Z), Str(<<72, UNDERSCORE, PERCENT>>))
PayB3 == Obj(Str(idB), Str(plus1), Str(plus9), Str(ts1Z), JNull)
\* the text is one lone surrogate, JSON "\ud800"
PayA3 == Obj(Str(idA), Str(plus1), Str(plus9), Str(ts1Z), Str(<<SURROGATE_MIN>>))
PayC3 == Obj(Str(idC), Str(plus2), Str(plus9), Str(ts1Z), Str(<<SURROGATE_MIN>>))
\* "h", U+0000, "i"
PayC4 == Obj(Str(idC), Str(plus2), Str(plus9), Str(ts10Z), Str(<<NONCHAR_MAX, 104, 0, 105>>))

ValidBodies == {PayA1, PayA2, PayB1, PayB2, PayC1, PayC3}

\* PayC1 with one field changed
BadIdBodies ==
  {[PayC1 EXCEPT !.message_id = j] : j \in {Str(<<>>), JAbsent, JNull}}
\* "1", "+", "+1a", "", "+1 ", then the Arabic-Indic "+1", "+1" and
\* superscript 2, and "+" with the Devanagari 1, the fullwidth 2 and the
\* circled 1
PhoneValues ==
  {Str(<<49>>), Str(<<PLUS>>), Str(<<PLUS, 49, 97>>), Str(<<>>), Str(<<PLUS, 49, 32>>),
   Str(<<PLUS, 1633>>), Str(<<PLUS, 49, 178>>), Str(<<PLUS, 2407, 65298, 9312>>),
   JNull, JAbsent}
BadFromBodies == {[PayC1 EXCEPT !.from = j] : j \in PhoneValues}
BadToBodies ==
  {[PayC1 EXCEPT !.to = j] :
     j \in PhoneValues
            \ {JNull, Str(<<>>), Str(<<PLUS, 49, 178>>), Str(<<PLUS, 2407, 65298, 9312>>)}}
\* "1", "", "1z", "Z1"
BadTsBodies ==
  {[PayC1 EXCEPT !.ts = j] :
     j \in {Str(<<49>>), Str(<<>>), Str(<<49, 122>>), Str(<<ZED, 49>>), JArray}}
BadTextBodies ==
  {[PayC1 EXCEPT !.text = j] : j \in {Str(Pad(TEXT_MAX + 1)), JArray}}

IngestBodies ==
  ValidBodies \cup BadIdBodies \cup BadFromBodies \cup BadToBodies \cup BadTsBodies
  \cup BadTextBodies \cup {NotJson}

Signed(body) ==
  [kind |-> "webhook", body |-> body, signature |-> hexdigest(WEBHOOK_SECRET, body)]

\* header values that are not the signature of `body`: no header, an empty
\* one, "abc", "e" with an acute accent, the signature of another body, and
\* the digest of this body under another key
BadSignatures(body) ==
  {NoHeader, Header(<<>>), Header(<<97, 98, 99>>), Header(<<233>>),
   hexdigest(WEBHOOK_SECRET, IF body = PayA1 THEN PayB1 ELSE PayA1),
   hexdigest("not the secret", body)}

BadlySigned ==
  {[kind |-> "webhook", body |-> b, signature |-> sig] :
     b \in {PayA1}, sig \in BadSignatures(PayA1)}
  \cup {[kind |-> "webhook", body |-> b, signature |-> sig] :
     b \in {NotJson}, sig \in BadSignatures(NotJson)}
  \cup {[kind |-> "webhook", body |-> [PayC1 EXCEPT !.ts = Str(<<49>>)], signature |-> sig] :
     sig \in BadSignatures(PayC1)}

IngestRequests == {Signed(b) : b \in IngestBodies} \cup BadlySigned

QueryWebhooks == {Signed(b) : b \in {PayA1, PayA2, PayB3, PayC2, PayC4}}
FaultWebhooks == {Signed(b) : b \in {PayA1, PayA2, PayA3, PayB3, PayC2}}

\* (from, since, q) of GET /messages
Filters ==
  {<<None, None, None>>,
   <<Str(plus1), None, None>>,
   <<None, Str(ts1Z), None>>,
   <<None, None, Str(<<104>>)>>,
   <<Str(plus1), Str(ts1Z), None>>,
   <<Str(plus1), None, Str(<<104>>)>>,
   <<Str(plus2), Str(ts10Z), Str(<<72>>)>>,
   <<None, None, Str(<<PERCENT>>)>>,
   <<None, None, Str(<<UNDERSCORE>>)>>,
   <<Str(<<>>), None, None>>,
   <<None, Str(<<>>), Str(<<>>)>>,
   <<Str(plus9), None, None>>,
   <<None, None, Str(<<105>>)>>,
   <<None, None, Str(<<NONCHAR_MIN>>)>>}

\* a q of 12500 characters of four bytes each: the pattern has 50002 bytes
LongQ == Str([i \in 1..12500 |-> 65536])

Messages(f, limit, offset) ==
  [kind |-> "messages", limit |-> limit, offset |-> offset, offset_hi |-> 0,
   from |-> f[1], since |-> f[2], q |-> f[3]]

MessageQueries ==
  {Messages(f, l, o) : f \in Filters, l \in {1, 2, LIMIT_MAX}, o \in 0..3}
  \cup {Messages(<<None, None, None>>, LIMIT_MIN - 1, 0),
        Messages(<<None, None, None>>, LIMIT_MAX + 1, 0),
        Messages(<<None, None, None>>, 1, OFFSET_MIN - 1)}
  \* offset 2^63; the long q alone, and behind a sender filter
  \cup {[Messages(<<None, None, None>>, 1, 0) EXCEPT !.offset_hi = 1],
        Messages(<<None, None, LongQ>>, 1, 0),
        Messages(<<Str(plus2), None, LongQ>>, 1, 0)}

ConcRequests ==
  {Signed(b) : b \in {PayA1, PayA2, PayA3, PayB3}}
  \cup {Messages(<<None, None, None>>, 1, 1)}

\* GET /stats carries no parameter
StatsRequest == [kind |-> "stats"]

\* two deliveries from two senders, the first page of two and the statistics
ReadRequests ==
  {Signed(b) : b \in {PayA2, PayB3}}
  \cup {Messages(<<None, None, None>>, 2, 0), StatsRequest}

\* deliveries for the statistics: the k-th has message_id "m<k>", ts "<k>Z"
\* and sender "+<n>"
StatsSender(n) == <<PLUS>> \o Digits(n)
StatsPay(k, n) ==
  Obj(Str(<<109>> \o Digits(k)), Str(StatsSender(n)), Str(plus9),
      Str(Append(Digits(k), ZED)), JNull)

\* the sender numbers of the deliveries a client makes, in order: twelve
\* senders in ascending then in descending order, two of them writing
\* again, and three senders with three, two and one message
Scripts ==
  {<<1, 2, 3, 4, 5, 6, 7, 8, 9, 10, 11, 12, 1, 5>>,
   <<12, 11, 10, 9, 8, 7, 6, 5, 4, 3, 2, 1, 5, 5>>,
   <<3, 3, 7, 3, 7, 1>>}
MaxScript == 14
StatsWebhooks == {Signed(StatsPay(k, n)) : k \in 1..MaxScript, n \in 1..12}

\* req is the delivery that follows the ones stored, in one of the scripts
Scripted(req) ==
  \E s \in Scripts :
    LET k == Len(store) + 1
    IN  /\ k <= Len(s)
        /\ \A i \in 1..Len(store) : store[i].from_msisdn = StatsSender(s[i])
        /\ req = Signed(StatsPay(k, s[k]))

(***************************************************************************)
(* Specifications.                                                         *)
(***************************************************************************)
\* worker p is free, or has just answered this very request (the client
\* delivers it again)
FreeFor(p, req) == proc[p].pc = "idle" \/ (proc[p].pc = "done" /\ proc[p].req = req)

\* one worker serving webhook deliveries one after the other
Next ==
  \/ \E req \in IngestRequests : FreeFor(1, req) /\ webhook(1, req)
  \/ insert_execute(1)
  \/ insert_commit(1)
  \/ Return(1)
  \/ Tick

Spec == Init /\ [][Next]_vars

\* one worker serving deliveries and reads one after the other
NextQuery ==
  \/ \E req \in QueryWebhooks : FreeFor(1, req) /\ webhook(1, req)
  \/ \E req \in MessageQueries : FreeFor(1, req) /\ get_messages(1, req)
  \/ insert_execute(1)
  \/ insert_commit(1)
  \/ messages_count(1)
  \/ messages_data(1)
  \/ Return(1)
  \/ Tick

SpecQuery == Init /\ [][NextQuery]_vars

\* several workers, their database statements interleaved while time
\* passes; a statement that finds the write lock held waits, or gives up
NextConc ==
  \/ \E p \in Procs, req \in ConcRequests :
       \/ req.kind = "webhook" /\ FreeFor(p, req) /\ webhook(p, req)
       \/ req.kind = "messages" /\ FreeFor(p, req) /\ get_messages(p, req)
  \/ \E p \in Procs : insert_execute(p)
  \/ \E p \in Procs : insert_busy(p)
  \/ \E p \in Procs : insert_commit(p)
  \/ \E p \in Procs : messages_count(p)
  \/ \E p \in Procs : messages_data(p)
  \/ \E p \in Procs : Return(p)
  \/ Tick

SpecConc == Init /\ [][NextConc]_vars

\* several workers, the statements of the two read handlers interleaved
\* with those of deliveries
NextReads ==
  \/ \E p \in Procs, req \in ReadRequests :
       \/ req.kind = "webhook" /\ FreeFor(p, req) /\ webhook(p, req)
       \/ req.kind = "messages" /\ FreeFor(p, req) /\ get_messages(p, req)
       \/ req.kind = "stats" /\ FreeFor(p, req) /\ stats(p, req)
  \/ \E p \in Procs : insert_execute(p)
  \/ \E p \in Procs : insert_busy(p)
  \/ \E p \in Procs : insert_commit(p)
  \/ \E p \in Procs : messages_count(p)
  \/ \E p \in Procs : messages_data(p)
  \/ \E p \in Procs : stats_total_messages(p)
  \/ \E p \in Procs : stats_senders_count(p)
  \/ \E p \in Procs : stats_messages_per_sender(p)
  \/ \E p \in Procs : stats_first_message_ts(p)
  \/ \E p \in Procs : stats_last_message_ts(p)
  \/ \E p \in Procs : Return(p)

SpecReads == Init /\ [][NextReads]_vars

\* one worker serving deliveries one after the other on a database whose
\* writes may fail
NextFault ==
  \/ \E req \in FaultWebhooks : FreeFor(1, req) /\ webhook(1, req)
  \/ insert_execute(1)
  \/ insert_commit(1)
  \/ \E e \in WriteFaults : execute_fails(1, e)
  \/ \E e \in WriteFaults : commit_fails(1, e)
  \/ Return(1)

SpecFault == Init /\ [][NextFault]_vars

\* one worker serving scripted deliveries and GET /stats one after the other
NextStats ==
  \/ \E req \in StatsWebhooks : FreeFor(1, req) /\ Scripted(req) /\ webhook(1, req)
  \/ FreeFor(1, StatsRequest) /\ stats(1, StatsRequest)
  \/ insert_execute(1)
  \/ insert_commit(1)
  \/ stats_total_messages(1)
  \/ stats_senders_count(1)
  \/ stats_messages_per_sender(1)
  \/ stats_first_message_ts(1)
  \/ stats_last_message_ts(1)
  \/ Return(1)

SpecStats == Init /\ [][NextStats]_vars

(***************************************************************************)
(* What the claims speak of.                                               *)
(***************************************************************************)
\* the header is the hex HMAC-SHA256 of the raw body under the shared secret
CorrectlySigned(req) == req.signature = hexdigest(WEBHOOK_SECRET, req.body)

\* ^\+[0-9]+$
MatchesE164(v) == Len(v) >= 2 /\ v[1] = PLUS /\ \A i \in 2..Len(v) : v[i] \in AsciiDigits

\* a payload the specification calls valid
ValidPayload(body) ==
  /\ body.kind = "object"
  /\ body.message_id.t = "str" /\ body.message_id.s # <<>>
  /\ body.from.t = "str" /\ MatchesE164(body.from.s)
  /\ body.to.t = "str" /\ MatchesE164(body.to.s)
  /\ body.ts.t = "str" /\ Len(body.ts.s) >= 1 /\ body.ts.s[Len(body.ts.s)] = ZED
  /\ \/ body.text.t \in {"null", "absent"}
     \/ body.text.t = "str" /\ Len(body.text.s) <= TEXT_MAX

RowsWithId(rows, id) == {i \in DOMAIN rows : rows[i].message_id = id}

\* worker p has answered a POST /webhook
Answered(p) == proc[p].pc = "done" /\ proc[p].req.kind = "webhook"
Created(p) == proc[p].resp.status = 200 /\ proc[p].resp.result = "created"
Duplicate(p) == proc[p].resp.status = 200 /\ proc[p].resp.result = "duplicate"

\* C1: a correctly signed valid payload P whose message_id is not stored
\* yet is answered "created"; P posted again right after is answered
\* "duplicate"; after either answer the store holds exactly one row with
\* P.message_id.
C1_CreatedThenDuplicate ==
  \A p \in Procs :
    (Answered(p) /\ CorrectlySigned(proc[p].req) /\ ValidPayload(proc[p].req.body)) =>
      LET id == proc[p].req.body.message_id.s
      IN  /\ id \notin Ids(proc[p].pre) => Created(p)
          /\ proc[p].repeat => Duplicate(p)
          /\ Cardinality(RowsWithId(store, id)) = 1

\* the second of two successive deliveries of P has been answered "duplicate"
C1_Witness ==
  \E p \in Procs :
    /\ Answered(p) /\ CorrectlySigned(proc[p].req) /\ ValidPayload(proc[p].req.body)
    /\ proc[p].repeat /\ Duplicate(p)
    /\ Cardinality(RowsWithId(store, proc[p].req.body.message_id.s)) = 1

\* the row for `id` is missing, or was inserted by worker p or worker q
WrittenByOneOf(p, q, id) ==
  \A i \in RowsWithId(store, id) : i \in {proc[p].rowid, proc[q].rowid}

\* C2: two correctly signed valid deliveries of one message_id that were
\* both received before a row for it was committed (their inserts
\* interleave), no third delivery having written the row: one is answered
\* "created", the other "duplicate", and exactly one row is stored.
C2_ConcurrentSameId ==
  \A p, q \in Procs :
    (/\ p # q
     /\ Answered(p) /\ CorrectlySigned(proc[p].req) /\ ValidPayload(proc[p].req.body)
     /\ Answered(q) /\ CorrectlySigned(proc[q].req) /\ ValidPayload(proc[q].req.body)
     /\ proc[p].req.body.message_id = proc[q].req.body.message_id
     /\ proc[p].req.body.message_id.s \notin Ids(proc[p].pre) \cup Ids(proc[q].pre)
     /\ WrittenByOneOf(p, q, proc[p].req.body.message_id.s))
    => /\ (Created(p) /\ Duplicate(q)) \/ (Duplicate(p) /\ Created(q))
       /\ Cardinality(RowsWithId(store, proc[p].req.body.message_id.s)) = 1

\* two deliveries of one message_id with different field values, received
\* before either had inserted, have both been answered
C2_Witness ==
  \E p, q \in Procs :
    /\ p # q /\ Answered(p) /\ Answered(q)
    /\ proc[p].req # proc[q].req
    /\ proc[p].req.body.message_id = proc[q].req.body.message_id
    /\ proc[p].req.body.message_id.s \notin Ids(proc[p].pre) \cup Ids(proc[q].pre)
    /\ Created(p) /\ Duplicate(q)

\* C3: a POST /webhook whose signature header is missing or is not the
\* HMAC of the body is answered at once and leaves the store as it was.
C3_BadSignatureNoRow ==
  \A p \in Procs :
    (proc[p].req.kind = "webhook" /\ ~CorrectlySigned(proc[p].req)) =>
      /\ proc[p].pc = "done"
      /\ store = proc[p].pre

\* a valid payload under a wrong signature has been answered
C3_Witness ==
  \E p \in Procs :
    /\ Answered(p) /\ ~CorrectlySigned(proc[p].req)
    /\ proc[p].req.signature.t = "hex"
    /\ ValidPayload(proc[p].req.body)
    /\ proc[p].req.body.message_id.s \notin Ids(store)

\* C4: every POST /webhook whose signature is not the correct one is
\* answered 401 "invalid signature", whatever the body.
C4_BadSignatureAlways401 ==
  \A p \in Procs :
    (Answered(p) /\ ~CorrectlySigned(proc[p].req)) =>
      proc[p].resp = HTTPException(401, "invalid signature", {})

\* C5: no two rows share a message_id, and every row has a non-empty
\* message_id, from and to matching ^\+[0-9]+$, a ts ending in Z, and a
\* text that is null or at most 4096 characters long.
C5_StoreInvariant ==
  /\ \A i, j \in DOMAIN store : store[i].message_id = store[j].message_id => i = j
  /\ \A i \in DOMAIN store :
       /\ store[i].message_id # <<>>
       /\ MatchesE164(store[i].from_msisdn)
       /\ MatchesE164(store[i].to_msisdn)
       /\ Len(store[i].ts) >= 1 /\ store[i].ts[Len(store[i].ts)] = ZED
       /\ store[i].text.t = "none" \/ Len(store[i].text.s) <= TEXT_MAX

\* every row of the store is still there, unchanged, after the step
RowsKept == \A i \in DOMAIN store : i \in DOMAIN store' /\ store'[i] = store[i]

\* the step in which worker p answers a correctly signed valid delivery
\* whose message_id is already stored
AnswersReuse(p) ==
  /\ proc[p].pc \in {"insert", "commit"}
  /\ proc'[p].pc = "done"
  /\ CorrectlySigned(proc[p].req) /\ ValidPayload(proc[p].req.body)
  /\ proc[p].req.body.message_id.s \in Ids(store)

\* C6: the store is append-only: every step keeps every stored row with
\* all its columns, created_at included; a correctly signed delivery that
\* reuses a stored message_id is answered "duplicate" and the store is
\* left as it was.
C6_AppendOnly ==
  [][/\ RowsKept
     /\ \A p \in Procs :
          AnswersReuse(p) =>
            /\ proc'[p].resp.status = 200 /\ proc'[p].resp.result = "duplicate"
            /\ store' = store]_vars

\* a delivery reusing a stored message_id with another sender, at a later
\* time than the row's created_at, has been answered "duplicate"
C6_Witness ==
  \E p \in Procs :
    /\ Answered(p) /\ Duplicate(p) /\ store = proc[p].pre
    /\ \E i \in RowsWithId(store, proc[p].req.body.message_id.s) :
         /\ store[i].from_msisdn # proc[p].req.body.from.s
         /\ store[i].ts # proc[p].req.body.ts.s
         /\ store[i].created_at # UtcNowIsoZ(clock)

\* the JSON value is a string matching ^\+[0-9]+$
IsE164(j) == j.t = "str" /\ MatchesE164(j.s)

\* C7: a correctly signed POST /webhook whose from or to does not match
\* ^\+[0-9]+$ is answered 422 and creates no row.
C7_BadPhoneRejected ==
  \A p \in Procs :
    (/\ Answered(p) /\ CorrectlySigned(proc[p].req)
     /\ proc[p].req.body.kind = "object"
     /\ ~IsE164(proc[p].req.body.from) \/ ~IsE164(proc[p].req.body.to))
    => proc[p].resp.status = 422 /\ store = proc[p].pre

\* the payload has a text longer than 4096 characters, a ts that does not
\* end in Z, or an empty message_id
C8Defect(body) ==
  \/ body.text.t = "str" /\ Len(body.text.s) > TEXT_MAX
  \/ body.ts.t = "str" /\ ~(Len(body.ts.s) >= 1 /\ body.ts.s[Len(body.ts.s)] = ZED)
  \/ body.message_id.t = "str" /\ body.message_id.s = <<>>

\* C8: a correctly signed POST /webhook whose text is longer than 4096
\* characters, whose ts does not end in Z or whose message_id is empty is
\* answered 422 at once and the store is unchanged; a valid payload, whose
\* text may be 4096 characters long, null or absent, is accepted: it
\* passes validation and goes on to insert_message, whose answer is 200
\* unless binding the values raised UnicodeEncodeError.
C8_Validation ==
  \A p \in Procs :
    (/\ proc[p].req.kind = "webhook" /\ CorrectlySigned(proc[p].req)
     /\ proc[p].req.body.kind = "object")
    => /\ C8Defect(proc[p].req.body) =>
            /\ proc[p].pc = "done"
            /\ proc[p].resp.status = 422
            /\ store = proc[p].pre
       /\ ValidPayload(proc[p].req.body) =>
            /\ proc[p].pc # "idle"
            /\ proc[p].pc = "done" =>
                 \/ proc[p].resp.status = 200
                 \/ proc[p].resp.status = 500 /\ proc[p].raised = "UnicodeEncodeError"

\* a text of 4097 characters has been refused while the store holds a row
\* whose text has 4096
C8_Witness ==
  \E p \in Procs :
    /\ Answered(p) /\ CorrectlySigned(proc[p].req)
    /\ proc[p].req.body.text.t = "str" /\ Len(proc[p].req.body.text.s) = TEXT_MAX + 1
    /\ proc[p].resp.status = 422 /\ proc[p].resp.errors = {"text"}
    /\ \E i \in DOMAIN store :
         store[i].text.t = "str" /\ Len(store[i].text.s) = TEXT_MAX

\* worker p has answered a GET /messages with a page
Listed(p) ==
  proc[p].pc = "done" /\ proc[p].req.kind = "messages" /\ proc[p].resp.status = 200

\* C9: the data list of every GET /messages response is in ascending
\* (ts, message_id) order: each ts is at most the next, and entries with
\* the same ts are in ascending message_id order.
C9_Sorted ==
  \A p \in Procs :
    Listed(p) =>
      LET data == proc[p].resp.data
      IN  \A i \in 1..(Len(data) - 1) :
            \/ LexLess(data[i].ts, data[i + 1].ts)
            \/ /\ data[i].ts = data[i + 1].ts
               /\ ~LexLess(data[i + 1].message_id, data[i].message_id)

\* a page holds two entries with the same ts that were inserted in the
\* other order
C9_Witness ==
  \E p \in Procs :
    /\ Listed(p)
    /\ \E k \in 1..(Len(proc[p].resp.data) - 1) :
         LET a == proc[p].resp.data[k]
             b == proc[p].resp.data[k + 1]
         IN  /\ a.ts = b.ts
             /\ \E i, j \in DOMAIN store :
                  /\ store[i].message_id = a.message_id
                  /\ store[j].message_id = b.message_id
                  /\ j < i

\* the query parameter is present in the request with a value (an empty
\* value is read as no filter)
Given(o) == o.t = "str" /\ o.s # <<>>

\* q occurs in text as it stands, character for character
Contains(text, q) ==
  \E i \in 0..(Len(text) - Len(q)) : SubSeq(text, i + 1, i + Len(q)) = q

\* the row passes every filter the request gives
Matches(row, req) ==
  /\ Given(req.from) => row.from_msisdn = req.from.s
  /\ Given(req.since) => ~LexLess(row.ts, req.since.s)
  /\ Given(req.q) => row.text.t = "str" /\ Contains(row.text.s, req.q.s)

\* C10: with the store unchanged during the request, total is the number
\* of stored rows that satisfy the filters (the rows the handler's WHERE
\* selects; without q, the rows whose sender equals from and whose ts is
\* not before since), whatever limit and offset are, and data holds
\* min(limit, max(total - offset, 0)) entries.
C10_Total ==
  \A p \in Procs :
    Listed(p) =>
      LET req == proc[p].req
          matching == {i \in DOMAIN store : Where(store[i], Conditions(req))}
      IN  /\ store = proc[p].pre
          /\ proc[p].resp.total = Cardinality(matching)
          /\ ~Given(req.q) =>
               proc[p].resp.total = Cardinality({i \in DOMAIN store : Matches(store[i], req)})
          /\ Len(proc[p].resp.data)
               = Min(req.limit, Max(proc[p].resp.total - req.offset, 0))

\* a request with q U+FFFE whose offset is past the end, on a store of
\* three rows one of which has U+FFFF in its text: data is empty and total
\* counts that row, not all of them
C10_Witness ==
  \E p \in Procs :
    /\ Listed(p)
    /\ proc[p].req.q = Str(<<NONCHAR_MIN>>)
    /\ Len(store) = 3
    /\ \E i \in DOMAIN store :
         store[i].text.t = "str" /\ Contains(store[i].text.s, <<NONCHAR_MAX>>)
    /\ proc[p].resp.total = 1
    /\ proc[p].req.offset >= proc[p].resp.total
    /\ proc[p].resp.data = <<>>

\* worker p has answered a GET /stats
StatsAnswered(p) ==
  proc[p].pc = "done" /\ proc[p].req.kind = "stats" /\ proc[p].resp.status = 200

\* the number of stored rows whose sender is `sender`
RowsFrom(sender) == Cardinality({i \in DOMAIN store : store[i].from_msisdn = sender})

\* the senders named in a messages_per_sender list
Named(m) == {m[i].from : i \in DOMAIN m}

\* C11: the messages_per_sender list of a GET /stats response has at most
\* 10 entries, each entry's count is the number of stored rows with that
\* sender, the counts are in non-increasing order, and no sender left out
\* of the list has a strictly larger count than a sender in it.
C11_TopSenders ==
  \A p \in Procs :
    StatsAnswered(p) =>
      LET m == proc[p].resp.messages_per_sender
      IN  /\ Len(m) <= 10
          /\ \A i \in DOMAIN m : m[i].count = RowsFrom(m[i].from)
          /\ \A i \in 1..(Len(m) - 1) : m[i].count >= m[i + 1].count
          /\ \A s \in Senders(store) \ Named(m) :
               \A i \in DOMAIN m : RowsFrom(s) <= m[i].count

\* twelve senders are stored, one of them twice: the list has ten entries,
\* the sender with two rows leads it and two senders are left out
C11_Witness ==
  \E p \in Procs :
    /\ StatsAnswered(p)
    /\ Cardinality(Senders(store)) = 12
    /\ Len(proc[p].resp.messages_per_sender) = 10
    /\ proc[p].resp.messages_per_sender[1].count = 2
    /\ proc[p].resp.messages_per_sender[2].count = 1
    /\ Cardinality(Senders(store) \ Named(proc[p].resp.messages_per_sender)) = 2

\* C12: in a GET /stats response first_message_ts and last_message_ts are
\* both null when the store is empty; otherwise they are the smallest and
\* the largest stored ts in lexicographic order, so first <= last.
C12_FirstLast ==
  \A p \in Procs :
    StatsAnswered(p) =>
      LET first == proc[p].resp.first_message_ts
          last == proc[p].resp.last_message_ts
      IN  IF store = <<>>
          THEN first = None /\ last = None
          ELSE /\ first.t = "str" /\ last.t = "str"
               /\ \E i \in DOMAIN store : store[i].ts = first.s
               /\ \E i \in DOMAIN store : store[i].ts = last.s
               /\ \A i \in DOMAIN store :
                    ~LexLess(store[i].ts, first.s) /\ ~LexLess(last.s, store[i].ts)
               /\ ~LexLess(last.s, first.s)

\* the smallest ts, "10Z", was not stored first and the largest, "9Z", not
\* last
C12_Witness ==
  \E p \in Procs :
    /\ StatsAnswered(p)
    /\ Len(store) >= 2
    /\ proc[p].resp.first_message_ts = Str(ts10Z)
    /\ proc[p].resp.last_message_ts.s # store[Len(store)].ts
    /\ store[1].ts # ts10Z

\* worker p has answered a delivery for which the handler called
\* insert_message
Inserting(p) ==
  /\ Answered(p) /\ CorrectlySigned(proc[p].req)
  /\ ParseErrors(proc[p].req.body) = {}

\* C13: insert_message returns False (the answer is "duplicate") only when
\* a row with the same message_id is already stored; a write that fails in
\* any other way is answered as a failure (500), never "created" or
\* "duplicate", the worker is through with the request (no second attempt)
\* and the store is as it was when the request arrived.
C13_WriteFailures ==
  \A p \in Procs :
    /\ Inserting(p) =>
         LET id == proc[p].req.body.message_id.s
         IN  /\ Duplicate(p) => id \in Ids(proc[p].pre) /\ store = proc[p].pre
             /\ Created(p) => proc[p].raised = "" /\ id \in Ids(store) \ Ids(proc[p].pre)
             /\ proc[p].raised \notin {"", "IntegrityError"} =>
                  /\ proc[p].resp.status = 500
                  /\ store = proc[p].pre
    /\ proc[p].raised # "" => proc[p].pc = "done"

\* conn.commit failed for a new message_id: the answer is 500, the row is
\* not stored and the write lock is free; an earlier row is still there
C13_Witness ==
  \E p \in Procs :
    /\ Inserting(p)
    /\ proc[p].raised \in WriteFaults
    /\ proc[p].resp.status = 500
    /\ proc[p].req.body.message_id.s \notin Ids(store)
    /\ store # <<>>
    /\ wlock = 0

\* C14: GET /messages combines its filters conjunctively: a stored row is
\* counted in total and may appear in data exactly when (from is not given
\* or its sender equals from) and (since is not given or its ts >= since)
\* and (q is not given or its text contains q as a literal substring); a
\* row failing a given filter is never returned.
C14_LiteralFilters ==
  \A p \in Procs :
    Listed(p) =>
      LET req == proc[p].req
          data == proc[p].resp.data
          matching == {i \in DOMAIN store : Matches(store[i], req)}
          returned == {i \in DOMAIN store :
                         \E k \in DOMAIN data : data[k].message_id = store[i].message_id}
      IN  /\ proc[p].resp.total = Cardinality(matching)
          /\ returned \subseteq matching
          /\ (req.offset = 0 /\ req.limit >= Cardinality(matching)) => returned = matching

\* the same rows stored in another order
Reverse(rows) == [i \in 1..Len(rows) |-> rows[Len(rows) + 1 - i]]
Rotate(rows) == IF rows = <<>> THEN rows ELSE Append(Tail(rows), Head(rows))
Rearrangements(rows) ==
  {Reverse(rows), OrderBy(rows), Reverse(OrderBy(rows)), Rotate(rows)}

\* C15: the messages_per_sender list, ties on count included, is fixed by
\* the content of the store: the response is the list the same rows give
\* when stored in another order, so neither the order of tied senders nor
\* which of them are among the 10 depends on the insertion order.
C15_TieOrder ==
  \A p \in Procs :
    StatsAnswered(p) =>
      \A rows \in Rearrangements(store) :
        proc[p].resp.messages_per_sender = MessagesPerSender(rows)

\* twelve senders with one row each, stored neither in ascending nor in
\* descending sender order in full: ten are listed, two tied ones are not
C15_Witness ==
  \E p \in Procs :
    /\ StatsAnswered(p)
    /\ LET m == proc[p].resp.messages_per_sender
       IN  /\ Len(m) = 10
           /\ \E s \in Senders(store) \ Named(m) : RowsFrom(s) = m[10].count
           /\ \E i \in 1..9 : m[i].count = m[i + 1].count
           /\ \A rows \in Rearrangements(store) : rows # store

\* the pages at offsets 0, L, ..., k * L, one after the other
RECURSIVE Pages(_, _, _, _)
Pages(rows, conds, L, k) ==
  IF k < 0 THEN <<>>
  ELSE Pages(rows, conds, L, k - 1) \o SelectPage(rows, conds, L, k * L)

\* C16: on an unchanged store, for the filters and the limit L of a
\* request, the pages at offsets 0, L, 2L, ... are pairwise disjoint and
\* their concatenation is the list of the matching rows in ascending
\* (ts, message_id) order, each row once, rows sharing a ts included; the
\* response is the page of that list at the request's offset.
C16_Pagination ==
  \A p \in Procs :
    Listed(p) =>
      LET req == proc[p].req
          L == req.limit
          all == Pages(store, Conditions(req), L, Len(store))
          matching == {i \in DOMAIN store : Where(store[i], Conditions(req))}
      IN  /\ store = proc[p].pre
          /\ \A i, j \in DOMAIN all : all[i].message_id = all[j].message_id => i = j
          /\ {all[i].message_id : i \in DOMAIN all}
               = {store[i].message_id : i \in matching}
          /\ ~Given(req.q) =>
               {all[i].message_id : i \in DOMAIN all}
                 = {store[i].message_id : i \in {j \in DOMAIN store : Matches(store[j], req)}}
          /\ \A i \in 1..(Len(all) - 1) :
               \/ LexLess(all[i].ts, all[i + 1].ts)
               \/ /\ all[i].ts = all[i + 1].ts
                  /\ LexLess(all[i].message_id, all[i + 1].message_id)
          /\ proc[p].resp.data
               = SubSeq(all, req.offset + 1, Min(req.offset + L, Len(all)))

\* the third of three pages of one entry each: its entry shares its ts
\* with the entry of the page before
C16_Witness ==
  \E p \in Procs :
    /\ Listed(p)
    /\ proc[p].req.limit = 1 /\ proc[p].req.offset = 2
    /\ proc[p].resp.total = 3
    /\ Len(proc[p].resp.data) = 1
    /\ \E i \in DOMAIN store :
         /\ store[i].ts = proc[p].resp.data[1].ts
         /\ LexLess(store[i].message_id, proc[p].resp.data[1].message_id)

\* C17: every GET /messages response, inserts running at the same time or
\* not, has no more entries in data than total, and no more than
\* max(total - offset, 0).
C17_PageWithinTotal ==
  \A p \in Procs :
    Listed(p) =>
      /\ Len(proc[p].resp.data) <= proc[p].resp.total
      /\ Len(proc[p].resp.data) <= Max(proc[p].resp.total - proc[p].req.offset, 0)

RECURSIVE SumOfCounts(_)
SumOfCounts(m) == IF m = <<>> THEN 0 ELSE Head(m).count + SumOfCounts(Tail(m))

\* C18: every GET /stats response, inserts running at the same time or
\* not, has senders_count <= total_messages, the counts of
\* messages_per_sender summing to at most total_messages, and
\* first_message_ts null exactly when last_message_ts is null and
\* total_messages is 0.
C18_StatsConsistent ==
  \A p \in Procs :
    StatsAnswered(p) =>
      LET r == proc[p].resp
      IN  /\ r.senders_count <= r.total_messages
          /\ SumOfCounts(r.messages_per_sender) <= r.total_messages
          /\ (r.first_message_ts = None)
               <=> (r.last_message_ts = None /\ r.total_messages = 0)

====
